---- MODULE Spec2Model ----
(***************************************************************************)
(* little_boxes/activitypub.py: the inbox pipeline (process_from_inbox),   *)
(* the outbox pipeline (post_to_outbox), recipient resolution and the      *)
(* per-variant hooks, over an in-memory storage/transport collaborator.    *)
(*                                                                         *)
(* Python dicts are TLA+ records (functions over field names): "k in d"    *)
(* is k \in DOMAIN d.  A bare identifier in an object field is Ref(s), an  *)
(* inline object is the record of its fields.  Exceptions are the err      *)
(* field of a result; "" is no exception.                                  *)
(* A list-or-scalar field is [list |-> seq] when it is a list.  The         *)
(* activities of the two pipelines are built by Construct, which leaves    *)
(* out the @context field (no step of the pipelines reads it);             *)
(* Construct_context is __init__ with the @context normalisation.          *)
(***************************************************************************)
EXTENDS Integers, Sequences, FiniteSets, TLC

\* ------------------------------------------------------------ bounds
MaxOps == 2

\* The longest list of recipient references resolved on its own.
MaxRecipients == 3

\* The longest @context list given to a constructor.
MaxContext == 3

\* ------------------------------------------------------------ constants
CTX_AS == "https://www.w3.org/ns/activitystreams"

CTX_SECURITY == "https://w3id.org/security/v1"

AS_PUBLIC == "https://www.w3.org/ns/activitystreams#Public"

\* Python's None where an identifier or an endpoint is expected.
None == "None"

\* ------------------------------------------------------------ dict helpers
Has(d, k) == k \in DOMAIN d

Put(d, k, v) == (k :> v) @@ d

Del(d, k) == [f \in DOMAIN d \ {k} |-> d[f]]

\* d.get(k) for a string-valued field.
Attr(d, k) == IF Has(d, k) THEN d[k] ELSE None

Ref(s) == [ref |-> s]

\* isinstance(obj, str)
IsStr(o) == Has(o, "ref")

Ok(v) == [err |-> "", val |-> v]

Raise(e) == [err |-> e, val |-> [type |-> "None"]]

\* ------------------------------------------------------------ ActivityType
ActivityTypes ==
  {"Announce", "Block", "Like", "Create", "Update", "Person",
   "OrderedCollection", "OrderedCollectionPage", "CollectionPage",
   "Collection", "Note", "Accept", "Reject", "Follow", "Delete", "Undo",
   "Image", "Tombstone"}

\* _ACTIVITY_CLS: the variants the metaclass registered.
Registered ==
  {"Person", "Block", "Collection", "Image", "Follow", "Accept", "Undo",
   "Like", "Announce", "Delete", "Update", "Create", "Tombstone", "Note"}

OBJECT_REQUIRED(cls) ==
  cls \in {"Block", "Follow", "Accept", "Undo", "Like", "Announce", "Delete",
           "Update", "Create"}

ACTOR_REQUIRED(cls) ==
  cls \notin {"Person", "Collection", "Image", "Tombstone"}

ALLOWED_OBJECT_TYPES(cls) ==
  CASE cls = "Follow"   -> {"Person"}
    [] cls = "Accept"   -> {"Follow"}
    [] cls = "Undo"     -> {"Follow", "Like", "Announce"}
    [] cls = "Like"     -> {"Note"}
    [] cls = "Announce" -> {"Note"}
    [] cls = "Delete"   -> {"Note", "Tombstone"}
    [] cls = "Update"   -> {"Note", "Person"}
    [] cls = "Create"   -> {"Note"}
    [] OTHER            -> {}

\* ------------------------------------------------------------ the remote world
\* What the identity-lookup collaborator resolves an identifier to.
Directory ==
     ("A" :> [type |-> "Person", id |-> "A", inbox |-> "A/inbox"])
  @@ ("B" :> [type |-> "Person", id |-> "B", inbox |-> "B/inbox",
              endpoints |-> [sharedInbox |-> "S/inbox"]])
  @@ ("C" :> [type |-> "Person", id |-> "C", inbox |-> "C/inbox",
              endpoints |-> [sharedInbox |-> "S/inbox"]])
  @@ ("D" :> [type |-> "Person", id |-> "D", inbox |-> "D/inbox",
              endpoints |-> [proxyUrl |-> "D/proxy"]])
  @@ ("E" :> [type |-> "Person", id |-> "E", inbox |-> "E/inbox"])
  @@ ("noteA" :> [type |-> "Note", id |-> "noteA", attributedTo |-> "A",
                  to |-> <<AS_PUBLIC>>, cc |-> <<"B">>])
  @@ ("noteC" :> [type |-> "Note", id |-> "noteC", attributedTo |-> "C",
                  published |-> "then", to |-> <<"A">>])
  @@ ("out/1/activity" :> [type |-> "Note", id |-> "out/1/activity",
                           attributedTo |-> "A", published |-> "then",
                           to |-> <<"B">>])
  @@ ("likeA" :> [type |-> "Like", id |-> "likeA", actor |-> "A",
                  object |-> Ref("noteC")])
  @@ ("A/followers" :> [type |-> "Collection", id |-> "A/followers",
                        items |-> <<"B", AS_PUBLIC, "C", "A">>])

\* BACKEND.fetch_iri
fetch_iri(iri) ==
  IF iri \in DOMAIN Directory THEN Ok(Directory[iri]) ELSE Raise("FetchError")

\* parse_collection(raw, fetcher): the member identifiers of a collection.
parse_collection(raw) == IF Has(raw, "items") THEN raw.items ELSE <<>>

\* let x = v in F(x): the result of one call, bound for the code after it.
With(v, F(_)) == F(v)

\* ------------------------------------------------------------ construction
\* datetime.utcnow() as Create._init reads it.
NOW == "now"

RECURSIVE Construct(_, _)
RECURSIVE parse_activity(_, _)
RECURSIVE get_object(_)
RECURSIVE get_actor(_)

\* BaseActivity._validate_person, for an actor given as a bare identifier.
validate_person(actor) ==
  With(fetch_iri(actor), LAMBDA r :
    IF r.err # "" THEN Raise("BadActivityError")
    ELSE IF ~Has(r.val, "id") THEN Raise("BadActivityError")
    ELSE Ok(r.val.id))

\* The object checks of BaseActivity.__init__: "" or the exception raised.
object_check(cls, obj) ==
  IF IsStr(obj) THEN ""
  ELSE IF ALLOWED_OBJECT_TYPES(cls) = {} THEN "UnexpectedActivityTypeError"
  ELSE IF ~Has(obj, "type") \/ (cls # "Create" /\ ~Has(obj, "id"))
    THEN "BadActivityError"
  ELSE IF obj.type \notin ActivityTypes THEN "ValueError"
  ELSE IF obj.type \notin ALLOWED_OBJECT_TYPES(cls)
    THEN "UnexpectedActivityTypeError"
  ELSE ""

\* Create._init, second half: the published stamp (self.published is not yet
\* set when _init runs).
Create_init_published(d, obj) ==
  IF Attr(obj, "published") # None THEN Ok(d)
  ELSE IF IsStr(d.object) THEN Raise("TypeError")
  ELSE Ok([Put(d, "published", NOW) EXCEPT !.object = Put(@, "published", NOW)])

\* Create._init
Create_init(d) ==
  With(get_object(d), LAMBDA o :
    IF o.err # "" THEN Raise(o.err)
    ELSE IF Attr(o.val, "attributedTo") # None
      THEN Create_init_published(d, o.val)
    ELSE With(get_actor(d), LAMBDA a :
      IF a.err # "" THEN Raise(a.err)
      ELSE IF IsStr(d.object) THEN Raise("TypeError")
      ELSE Create_init_published(
             [d EXCEPT !.object = Put(@, "attributedTo", a.val.id)], o.val)))

\* Note._init
Note_init(d, kw) == IF Has(kw, "sensitive") THEN d ELSE Put(d, "sensitive", FALSE)

\* The variant's _init callback (NotImplementedError is swallowed).
variant_init(cls, d, kw) ==
  CASE cls = "Create" -> Create_init(d)
    [] cls = "Note"   -> Ok(Note_init(d, kw))
    [] OTHER          -> Ok(d)

\* BaseActivity.__init__ from the _init callback on: the remaining keyword
\* arguments kw are merged into _data.
Construct_init(cls, d, kw) ==
  With(variant_init(cls, d, kw), LAMBDA ini :
    IF ini.err # "" THEN ini ELSE Ok(kw @@ ini.val))

\* BaseActivity.__init__, the object field.
Construct_object(cls, d, kw) ==
  IF OBJECT_REQUIRED(cls) /\ Has(kw, "object")
    THEN IF object_check(cls, kw.object) # ""
           THEN Raise(object_check(cls, kw.object))
           ELSE Construct_init(cls, Put(d, "object", kw.object),
                               Del(kw, "object"))
    ELSE Construct_init(cls, d, kw)

\* BaseActivity.__init__, the actor field.
Construct_actor(cls, d, kw) ==
  IF cls = "Person" \/ ~ACTOR_REQUIRED(cls) THEN Construct_object(cls, d, kw)
  ELSE IF Has(kw, "actor")
    THEN With(validate_person(kw.actor), LAMBDA va :
           IF va.err # "" THEN Raise(va.err)
           ELSE Construct_object(cls, Put(d, "actor", va.val),
                                 Del(kw, "actor")))
  ELSE IF cls = "Note" /\ Has(kw, "attributedTo")
    THEN Construct_object(cls, d, kw)
  ELSE Raise("BadActivityError")

\* BaseActivity.__init__ of variant cls on keyword arguments kw.
Construct(cls, kw) ==
  IF Has(kw, "type") /\ kw.type # cls THEN Raise("UnexpectedActivityTypeError")
  ELSE Construct_actor(cls,
         IF Has(kw, "id") THEN [type |-> cls, id |-> kw.id] ELSE [type |-> cls],
         Del(Del(kw, "type"), "id"))

\* BaseActivity.__init__, the @context given: CTX_AS when absent.
context_given(kw) ==
  IF ~Has(kw, "@context") THEN Ref(CTX_AS) ELSE kw["@context"]

\* if not isinstance(self._data["@context"], list): wrap it in a list.
context_as_list(c) == IF Has(c, "list") THEN c.list ELSE <<c>>

\* if CTX_SECURITY not in self._data["@context"]: append it.
context_security(l) ==
  IF \E i \in 1..Len(l) : l[i] = Ref(CTX_SECURITY) THEN l
  ELSE Append(l, Ref(CTX_SECURITY))

\* The Hashtag and sensitive keys: set on the last element when it is a
\* dict, else appended as a new dict.
context_extras(l) ==
  IF ~IsStr(l[Len(l)])
    THEN [l EXCEPT ![Len(l)] =
            Put(Put(@, "Hashtag", "as:Hashtag"), "sensitive", "as:sensitive")]
    ELSE Append(l, [Hashtag |-> "as:Hashtag", sensitive |-> "as:sensitive"])

\* BaseActivity.__init__, the @context check.
context_check(kw) ==
  context_extras(context_security(context_as_list(context_given(kw))))

\* BaseActivity.__init__ of variant cls on keyword arguments kw, @context
\* included.
Construct_context(cls, kw) ==
  With(Construct(cls, Del(kw, "@context")), LAMBDA a :
    IF a.err # "" THEN a
    ELSE Ok(Put(a.val, "@context", [list |-> context_check(kw)])))

\* parse_activity(payload, expected); expected = None when not given.
parse_activity(payload, expected) ==
  IF ~Has(payload, "type") THEN Raise("KeyError")
  ELSE IF payload.type \notin ActivityTypes THEN Raise("ValueError")
  ELSE IF expected # None /\ payload.type # expected
    THEN Raise("UnexpectedActivityTypeError")
  ELSE IF payload.type \notin Registered THEN Raise("BadActivityError")
  ELSE Construct(payload.type, payload)

\* BaseActivity.get_object: the object as a parsed activity (its _data).
get_object(d) ==
  IF ~Has(d, "object") THEN Raise("KeyError")
  ELSE IF ~IsStr(d.object) THEN parse_activity(d.object, None)
  ELSE With(fetch_iri(d.object.ref), LAMBDA r :
    IF r.err # "" THEN r
    ELSE IF ~Has(r.val, "type") \/ r.val.type \notin ActivityTypes
      THEN Raise("ValueError")
    ELSE IF r.val.type \notin ALLOWED_OBJECT_TYPES(d.type)
      THEN Raise("UnexpectedActivityTypeError")
    ELSE parse_activity(r.val, None))

\* Person(**BACKEND.fetch_iri(actor_id))
fetch_person(actor_id) ==
  With(fetch_iri(actor_id), LAMBDA r :
    IF r.err # "" THEN r ELSE Construct("Person", r.val))

\* BaseActivity.get_actor: the actor as a Person (its _data).
get_actor(d) ==
  IF Has(d, "actor") THEN fetch_person(d.actor)
  ELSE IF ACTOR_REQUIRED(d.type) /\ d.type # "Note"
    THEN Raise("BadActivityError")
  ELSE IF ~ACTOR_REQUIRED(d.type) THEN Raise("BadActivityError")
  ELSE fetch_person(Attr(d, "attributedTo"))

\* BaseActivity.to_dict(embed, embed_object_id_only): a shallow copy of _data.
to_dict(d, embed, embed_object_id_only) ==
  With(IF embed THEN Del(Del(d, "@context"), "signature") ELSE d, LAMBDA data :
    IF Has(data, "object") /\ embed_object_id_only /\ ~IsStr(data.object)
      THEN IF Has(data.object, "id")
             THEN Ok([data EXCEPT !.object = Ref(data.object.id)])
             ELSE Raise("BadActivityError")
      ELSE Ok(data))

\* del activity[field] for the two hidden-recipient fields.
strip_hidden(activity) == Del(Del(activity, "bto"), "bcc")

\* clean_activity leaving the object of a Create as it is.
clean_activity_top_only(activity) == strip_hidden(activity)

\* clean_activity: drop the hidden recipients of the activity and, for a
\* Create, of its object ("field in str" is a substring test; no identifier
\* of the model contains bto or bcc).
clean_activity(activity) ==
  IF activity.type = "Create" /\ ~IsStr(activity.object)
    THEN [strip_hidden(activity) EXCEPT !.object = strip_hidden(@)]
    ELSE strip_hidden(activity)

\* json.dumps(activity)
json_dumps(activity) == [json |-> activity]

\* ------------------------------------------------------------ recipients
\* list(set(xs)): the distinct members of xs, in the order ord lists them
\* (the iteration order of a Python set of strings is not fixed).
list_set(xs, ord) ==
  SelectSeq(ord, LAMBDA x : \E i \in 1..Len(xs) : xs[i] = x)

RECURSIVE addressing(_, _)
\* recipients.extend(_to_list(self._data[field])) for each field present
\* (every addressing field of the model is a list).
addressing(d, fields) ==
  IF fields = <<>> THEN <<>>
  ELSE (IF Has(d, Head(fields)) THEN d[Head(fields)] ELSE <<>>)
       \o addressing(d, Tail(fields))

\* Delete._get_actual_object
get_actual_object(d) ==
  With(get_object(d), LAMBDA o :
    IF o.err # "" THEN o
    ELSE IF o.val.type = "Tombstone"
      THEN With(fetch_iri(Attr(o.val, "id")), LAMBDA r :
             IF r.err # "" THEN r ELSE parse_activity(r.val, None))
    ELSE o)

\* [x.id] for the result x of a lookup.
id_list(x) == IF x.err # "" THEN Raise(x.err) ELSE Ok(<<Attr(x.val, "id")>>)

\* [obj.get_actor().id] for the result obj of a lookup.
actor_id_list(obj) ==
  IF obj.err # "" THEN Raise(obj.err) ELSE id_list(get_actor(obj.val))

\* Undo._recipients
Undo_recipients(d) ==
  With(get_object(d), LAMBDA obj :
    IF obj.err # "" THEN Raise(obj.err)
    ELSE IF obj.val.type = "Follow" THEN id_list(get_object(obj.val))
    ELSE actor_id_list(get_object(obj.val)))

\* Announce._recipients
Announce_recipients(d, ord) ==
  With(actor_id_list(get_object(d)), LAMBDA author :
    IF author.err # "" THEN author
    ELSE Ok(list_set(author.val \o addressing(d, <<"to", "cc">>), ord)))

\* Note._recipients
Note_recipients(d) == Ok(addressing(d, <<"to", "cc", "bto", "bcc">>))

\* Follow._recipients, Accept._recipients, Like._recipients, Undo._recipients,
\* Announce._recipients, Note._recipients and the default.
simple_recipients(d, ord) ==
  CASE d.type = "Follow"            -> id_list(get_object(d))
    [] d.type \in {"Accept", "Like"} -> actor_id_list(get_object(d))
    [] d.type = "Undo"              -> Undo_recipients(d)
    [] d.type = "Announce"          -> Announce_recipients(d, ord)
    [] d.type = "Note"              -> Note_recipients(d)
    [] OTHER                        -> Ok(<<>>)

\* Create._recipients: its own addressing, then its object's _recipients().
Create_recipients(d, ord) ==
  With(get_object(d), LAMBDA obj :
    IF obj.err # "" THEN Raise(obj.err)
    ELSE With(simple_recipients(obj.val, ord), LAMBDA r :
      IF r.err # "" THEN r
      ELSE Ok(addressing(d, <<"to", "cc", "bto", "bcc">>) \o r.val)))

\* The variant's _recipients() other than Delete's.
plain_recipients(d, ord) ==
  IF d.type = "Create" THEN Create_recipients(d, ord)
  ELSE simple_recipients(d, ord)

\* The variant's _recipients(): the raw recipient references.  Delete's are
\* those of the object it resolves to (never itself a Delete in the model).
variant_recipients(d, ord) ==
  IF d.type = "Delete"
    THEN With(get_actual_object(d), LAMBDA o :
           IF o.err # "" THEN Raise(o.err)
           ELSE IF o.val.type = "Delete" THEN Raise("RecursionError")
           ELSE plain_recipients(o.val, ord))
    ELSE plain_recipients(d, ord)

\* in_list finding nothing.
in_list_never(x, out) == FALSE

\* x in out
in_list(x, out) == \E i \in 1..Len(out) : out[i] = x

\* actor.endpoints is truthy
has_endpoints(p) == Has(p, "endpoints") /\ DOMAIN p.endpoints # {}

\* The endpoint choice for a Person p, given the endpoints chosen so far.
person_endpoints(p, out) ==
  IF has_endpoints(p) /\ ~in_list(Attr(p.endpoints, "sharedInbox"), out)
    THEN Append(out, Attr(p.endpoints, "sharedInbox"))
  ELSE IF Attr(p, "inbox") # None /\ ~in_list(Attr(p, "inbox"), out)
    THEN Append(out, p.inbox)
  ELSE out

RECURSIVE collection_loop(_, _, _, _)
\* The loop over the members of a collection; prev is col_actor as an
\* earlier iteration left it (empty while never assigned).  The result
\* carries col_actor on to the collections that follow.
collection_loop(items, actor_id, out, prev) ==
  IF items = <<>> THEN [err |-> "", val |-> out, col_actor |-> prev]
  ELSE IF Head(items) \in {actor_id, AS_PUBLIC}
    THEN collection_loop(Tail(items), actor_id, out, prev)
  ELSE With(fetch_person(Head(items)), LAMBDA p :
    IF p.err = ""
      THEN collection_loop(Tail(items), actor_id,
                           person_endpoints(p.val, out), <<p.val>>)
    ELSE IF p.err # "UnexpectedActivityTypeError"
      THEN [err |-> p.err, val |-> out, col_actor |-> prev]
    ELSE IF prev = <<>>
      THEN [err |-> "UnboundLocalError", val |-> out, col_actor |-> prev]
    ELSE collection_loop(Tail(items), actor_id,
                         person_endpoints(prev[1], out), prev))

RECURSIVE recipients_loop(_, _, _, _)
\* The loop of BaseActivity.recipients over the raw references (the
\* variants' _recipients return identifiers, never Person objects).
recipients_loop(rs, actor_id, out, col_actor) ==
  IF rs = <<>> THEN Ok(out)
  ELSE IF Head(rs) \in {actor_id, AS_PUBLIC, None}
    THEN recipients_loop(Tail(rs), actor_id, out, col_actor)
  ELSE With(fetch_iri(Head(rs)), LAMBDA raw :
    IF raw.err # "" THEN Raise(raw.err)
    ELSE IF ~Has(raw.val, "type") THEN Raise("KeyError")
    ELSE IF raw.val.type = "Person"
      THEN With(Construct("Person", raw.val), LAMBDA p :
             IF p.err # "" THEN Raise(p.err)
             ELSE recipients_loop(Tail(rs), actor_id,
                                  person_endpoints(p.val, out), col_actor))
    ELSE IF raw.val.type \in {"Collection", "OrderedCollection"}
      THEN With(collection_loop(parse_collection(raw.val), actor_id, out,
                                col_actor),
             LAMBDA c :
               IF c.err # "" THEN Raise(c.err)
               ELSE recipients_loop(Tail(rs), actor_id, c.val, c.col_actor))
    ELSE Raise("BadActivityError"))

\* BaseActivity.recipients
recipients(d, ord) ==
  With(variant_recipients(d, ord), LAMBDA rs :
    IF rs.err # "" THEN Raise(rs.err)
    ELSE With(get_actor(d), LAMBDA a :
      IF a.err # "" THEN Raise(a.err)
      ELSE recipients_loop(rs.val, Attr(a.val, "id"), <<>>, <<>>)))

\* ------------------------------------------------------------ the collaborator
\* The state one pipeline call threads through: the storage (inbox, outbox,
\* fx: the recorded relationship/like/share calls, nextId), the transport
\* (down: the endpoints whose delivery fails), the order Python's set
\* iteration takes (ord), the calls made so far (trace), the pending
\* exception (err) and the activity object being processed (self).

Ev(call, box, arg) == [call |-> call, box |-> box, arg |-> arg]

Emit(m, e) == [m EXCEPT !.trace = Append(@, e)]

Fail(m, e) == [m EXCEPT !.err = e]

\* BACKEND.random_object_id
random_object_id(m) == ToString(m.nextId)

\* BACKEND.activity_url
activity_url(obj_id) == "out/" \o obj_id

\* BACKEND.outbox_is_blocked: as_actor has a Block of actor_id in its outbox.
outbox_is_blocked(m, as_actor, actor_id) ==
  \E i \in 1..Len(m.outbox) :
    /\ m.outbox[i].box = as_actor
    /\ m.outbox[i].data.type = "Block"
    /\ Has(m.outbox[i].data, "object")
    /\ m.outbox[i].data.object = Ref(actor_id)

\* BACKEND.inbox_get_by_iri
inbox_get_by_iri(m, as_actor, iri) ==
  /\ iri # None
  /\ \E i \in 1..Len(m.inbox) : m.inbox[i].box = as_actor /\ m.inbox[i].id = iri

\* BACKEND.inbox_new
inbox_new(m, as_actor, d) ==
  Emit([m EXCEPT !.inbox = Append(@, [box |-> as_actor, id |-> Attr(d, "id"),
                                      type |-> d.type])],
       Ev("inbox_new", as_actor, Attr(d, "id")))

\* BACKEND.outbox_new
outbox_new(m, actor_id, d) ==
  Emit([m EXCEPT !.outbox = Append(@, [box |-> actor_id, data |-> d])],
       Ev("outbox_new", actor_id, Attr(d, "id")))

\* The identifier of the object an activity refers to.
object_id(d) ==
  IF ~Has(d, "object") THEN None
  ELSE IF IsStr(d.object) THEN d.object.ref
  ELSE Attr(d.object, "id")

\* BACKEND.is_from_outbox: the referenced object is an activity of the
\* outbox, or the object of one.
is_from_outbox(m, d) ==
  /\ object_id(d) # None
  /\ \E i \in 1..Len(m.outbox) :
       \/ Attr(m.outbox[i].data, "id") = object_id(d)
       \/ object_id(m.outbox[i].data) = object_id(d)

\* A recording call of the backend on activity d (new_follower, inbox_like,
\* outbox_delete, ...).
record_call(m, call, as_actor, d) ==
  Emit([m EXCEPT !.fx = @ \cup {Ev(call, as_actor, Attr(d, "id"))}],
       Ev(call, as_actor, Attr(d, "id")))

\* BACKEND.post_to_remote_inbox
post_to_remote_inbox(m, actor_id, payload, recp) ==
  IF recp \in m.down
    THEN Fail(Emit(m, [call |-> "post_to_remote_inbox", box |-> actor_id,
                       arg |-> recp, payload |-> payload]), "DeliveryError")
    ELSE Emit(m, [call |-> "post_to_remote_inbox", box |-> actor_id,
                  arg |-> recp, payload |-> payload])

\* ------------------------------------------------------------ outbox pipeline
\* An activity object: its _data, the state of its parent back-reference
\* (ctx: "unset" as __init__ leaves it, "alive" or "dead" after set_ctx) and
\* the id attribute set on the parent (None while not set).
NewObject(d) == [data |-> d, ctx |-> "unset", parent_id |-> None]

\* Create._outbox_set_id, after the object's id is stamped: self.ctx() on a
\* back-reference never set calls a dict.
Create_propagate_id(m) ==
  IF m.self.ctx = "unset" THEN Fail(m, "TypeError")
  ELSE IF m.self.ctx = "alive"
    THEN [m EXCEPT !.self.parent_id = m.self.data.object.id]
  ELSE m

\* Create_outbox_set_id stamping the Create's own URL on the Note.
Create_outbox_set_id_own_url(m, uri) ==
  IF ~Has(m.self.data, "object") THEN Fail(m, "KeyError")
  ELSE IF IsStr(m.self.data.object) THEN Fail(m, "TypeError")
  ELSE Create_propagate_id(
         [m EXCEPT !.self.data.object = Put(@, "id", uri)])

\* Create._outbox_set_id
Create_outbox_set_id(m, uri) ==
  IF ~Has(m.self.data, "object") THEN Fail(m, "KeyError")
  ELSE IF IsStr(m.self.data.object) THEN Fail(m, "TypeError")
  ELSE Create_propagate_id(
         [m EXCEPT !.self.data.object = Put(@, "id", uri \o "/activity")])

\* The variant's _outbox_set_id callback.
variant_outbox_set_id(m, uri) ==
  IF m.self.data.type = "Create" THEN Create_outbox_set_id(m, uri) ELSE m

\* BaseActivity.outbox_set_id
outbox_set_id(m, uri, obj_id) ==
  variant_outbox_set_id(
    Emit([m EXCEPT !.self.data = Put(@, "id", uri)],
         Ev("outbox_set_id", None, uri)),
    uri)

\* The variants that define _pre_post_to_outbox.
HasPreOutbox(cls) == cls \in {"Undo", "Delete", "Update"}

\* Delete._pre_post_to_outbox: the message of its NotFromOutboxError
\* subscripts the activity object obj, which raises TypeError.
Delete_pre_post_to_outbox(m) ==
  With(get_actual_object(m.self.data), LAMBDA obj :
    IF obj.err # "" THEN obj.err
    ELSE IF ~is_from_outbox(m, m.self.data) THEN "TypeError"
    ELSE "")

\* Undo._pre_post_to_outbox, Update._pre_post_to_outbox
Undo_pre_post_to_outbox(m) ==
  IF ~is_from_outbox(m, m.self.data) THEN "NotFromOutboxError" ELSE ""

\* The variant's _pre_post_to_outbox hook: "" or the exception.
variant_pre_post_to_outbox(m) ==
  IF m.self.data.type = "Delete" THEN Delete_pre_post_to_outbox(m)
  ELSE Undo_pre_post_to_outbox(m)

\* The outcome e of a hook, entered in the trace as name.
hook_outcome(m, name, box, e) ==
  IF e # "" THEN Fail(m, e)
  ELSE Emit(m, Ev(name, box, m.self.data.type))

\* The try/except around self._pre_post_to_outbox().
pre_post_to_outbox(m) ==
  IF ~HasPreOutbox(m.self.data.type) THEN m
  ELSE hook_outcome(Emit(m, Ev("_pre_post_to_outbox", None, m.self.data.type)),
                    "_pre_post_to_outbox:ok", None,
                    variant_pre_post_to_outbox(m))

\* The variants that define _post_to_outbox.
HasPostOutbox(cls) ==
  cls \in {"Follow", "Undo", "Like", "Announce", "Delete", "Update", "Create"}

\* The _undo_outbox hook of the variant of obj ("" when it defines none).
undo_outbox_call(cls) ==
  CASE cls = "Follow"   -> "undo_new_following"
    [] cls = "Like"     -> "outbox_undo_like"
    [] cls = "Announce" -> "outbox_undo_announce"
    [] OTHER            -> ""

\* Undo._post_to_outbox
Undo_post_to_outbox(m, as_actor) ==
  With(get_object(m.self.data), LAMBDA obj :
    IF obj.err # "" THEN Fail(m, obj.err)
    ELSE IF undo_outbox_call(obj.val.type) = "" THEN m
    ELSE record_call(m, undo_outbox_call(obj.val.type), as_actor, obj.val))

\* variant_post_to_outbox with a Follow hook that records the following.
variant_post_to_outbox_follow_records(m, as_actor) ==
  CASE m.self.data.type = "Follow" ->
         record_call(m, "new_following", as_actor, m.self.data)
    [] m.self.data.type = "Undo" -> Undo_post_to_outbox(m, as_actor)
    [] m.self.data.type = "Like" ->
         record_call(m, "outbox_like", as_actor, m.self.data)
    [] m.self.data.type = "Announce" ->
         record_call(m, "outbox_announce", as_actor, m.self.data)
    [] m.self.data.type = "Delete" ->
         record_call(m, "outbox_delete", as_actor, m.self.data)
    [] m.self.data.type = "Update" ->
         record_call(m, "outbox_update", as_actor, m.self.data)
    [] m.self.data.type = "Create" ->
         record_call(m, "outbox_create", as_actor, m.self.data)
    [] OTHER -> m

\* The variant's _post_to_outbox hook.
variant_post_to_outbox(m, as_actor) ==
  CASE m.self.data.type = "Follow" -> m
    [] m.self.data.type = "Undo" -> Undo_post_to_outbox(m, as_actor)
    [] m.self.data.type = "Like" ->
         record_call(m, "outbox_like", as_actor, m.self.data)
    [] m.self.data.type = "Announce" ->
         record_call(m, "outbox_announce", as_actor, m.self.data)
    [] m.self.data.type = "Delete" ->
         record_call(m, "outbox_delete", as_actor, m.self.data)
    [] m.self.data.type = "Update" ->
         record_call(m, "outbox_update", as_actor, m.self.data)
    [] m.self.data.type = "Create" ->
         record_call(m, "outbox_create", as_actor, m.self.data)
    [] OTHER -> m

\* A hook that returned: its return is entered in the trace as name.
hook_returned(m, name, box) ==
  IF m.err # "" THEN m ELSE Emit(m, Ev(name, box, m.self.data.type))

\* The try/except around self._post_to_outbox(...).
post_hook_outbox(m, as_actor) ==
  IF ~HasPostOutbox(m.self.data.type) THEN m
  ELSE hook_returned(
         variant_post_to_outbox(
           Emit(m, Ev("_post_to_outbox", as_actor, m.self.data.type)),
           as_actor),
         "_post_to_outbox:ok", as_actor)

\* deliver stopping after the first recipient.
deliver_first_only(m, actor_id, payload, recps) ==
  IF recps = <<>> \/ m.err # "" THEN m
  ELSE post_to_remote_inbox(m, actor_id, payload, Head(recps))

RECURSIVE deliver(_, _, _, _)
\* for recp in recipients: BACKEND.post_to_remote_inbox(actor, payload, recp)
deliver(m, actor_id, payload, recps) ==
  IF recps = <<>> \/ m.err # "" THEN m
  ELSE deliver(post_to_remote_inbox(m, actor_id, payload, Head(recps)),
               actor_id, payload, Tail(recps))

\* payload = json.dumps(activity) and the delivery loop.
deliver_all(m, actor_id, activity, recps) ==
  IF m.err # "" THEN m ELSE deliver(m, actor_id, json_dumps(activity), recps)

\* clean_activity(self.to_dict()) as it acts on the activity itself: to_dict
\* copies _data shallowly, so the object of a Create is the same dict in the
\* copy and in _data.
cleaned_self(d, activity) ==
  IF d.type = "Create" /\ Has(d, "object") /\ ~IsStr(d.object)
    THEN [d EXCEPT !.object = activity.object]
    ELSE d

\* post_to_outbox_send delivering before the post-outbox hook.
post_to_outbox_send_deliver_first(m, actor_id, activity, recps) ==
  With(deliver_all(m, actor_id, activity, recps), LAMBDA m1 :
    IF m1.err # "" THEN m1
    ELSE post_hook_outbox([m1 EXCEPT !.self.data = cleaned_self(@, activity)],
                          actor_id))

\* post_to_outbox from activity = clean_activity(self.to_dict()) on.
post_to_outbox_send(m, actor_id, activity, recps) ==
  deliver_all(
    post_hook_outbox([m EXCEPT !.self.data = cleaned_self(@, activity)],
                     actor_id),
    actor_id, activity, recps)

\* post_to_outbox from recipients = self.recipients() on.
post_to_outbox_resolve(m, actor_id) ==
  With(recipients(m.self.data, m.ord), LAMBDA rs :
    IF rs.err # "" THEN Fail(m, rs.err)
    ELSE post_to_outbox_send(
           Emit(m, [call |-> "recipients", box |-> actor_id,
                    arg |-> m.self.data.type, out |-> rs.val]), actor_id,
           clean_activity(to_dict(m.self.data, FALSE, FALSE).val), rs.val))

\* post_to_outbox from BACKEND.outbox_new(self.get_actor(), self) on.
post_to_outbox_persist(m) ==
  With(get_actor(m.self.data), LAMBDA actor :
    IF actor.err # "" THEN Fail(m, actor.err)
    ELSE post_to_outbox_resolve(
           outbox_new(m, Attr(actor.val, "id"), m.self.data),
           Attr(actor.val, "id")))

\* post_to_outbox from the pre-outbox hook on.
post_to_outbox_hooks(m) ==
  IF m.err # "" THEN m
  ELSE With(pre_post_to_outbox(m), LAMBDA m2 :
         IF m2.err # "" THEN m2 ELSE post_to_outbox_persist(m2))

\* BaseActivity.post_to_outbox on m.self.
post_to_outbox(m) ==
  post_to_outbox_hooks(
    outbox_set_id([m EXCEPT !.nextId = @ + 1],
                  activity_url(random_object_id(m)), random_object_id(m)))

\* ------------------------------------------------------------ inbox pipeline
\* The variants that define _pre_process_from_inbox.
HasPreInbox(cls) == cls \in {"Accept", "Undo", "Delete", "Update"}

\* The variants that define _process_from_inbox.
HasPostInbox(cls) ==
  cls \in {"Follow", "Accept", "Undo", "Like", "Announce", "Delete", "Update",
           "Create"}

\* actors_differ comparing nothing.
actors_differ_never(a, oa) ==
  IF a.err # "" THEN a.err
  ELSE IF oa.err # "" THEN oa.err
  ELSE ""

\* actor.id != obj.get_actor().id, for two looked-up Persons.
actors_differ(a, oa) ==
  IF a.err # "" THEN a.err
  ELSE IF oa.err # "" THEN oa.err
  ELSE IF Attr(a.val, "id") # Attr(oa.val, "id") THEN "BadActivityError"
  ELSE ""

\* if actor.id != obj.get_actor().id: raise BadActivityError, with obj the
\* result of get_object() or _get_actual_object(): "" or the exception.
ownership_check(d, obj) ==
  IF obj.err # "" THEN obj.err
  ELSE actors_differ(get_actor(d), get_actor(obj.val))

\* variant_pre_process_from_inbox with an Undo hook that checks nothing.
variant_pre_process_from_inbox_undo_unchecked(d) ==
  CASE d.type = "Update" -> ownership_check(d, get_object(d))
    [] d.type = "Delete" -> ownership_check(d, get_actual_object(d))
    [] OTHER             -> ""

\* The variant's _pre_process_from_inbox hook: "" or the exception.
variant_pre_process_from_inbox(d) ==
  CASE d.type = "Undo"   -> ownership_check(d, get_object(d))
    [] d.type = "Update" -> ownership_check(d, get_object(d))
    [] d.type = "Delete" -> ownership_check(d, get_actual_object(d))
    [] OTHER             -> ""

\* pre_process_from_inbox letting the NotImplementedError of a missing hook
\* through.
pre_process_from_inbox_not_implemented(m, as_actor) ==
  IF ~HasPreInbox(m.self.data.type) THEN Fail(m, "NotImplementedError")
  ELSE hook_outcome(
         Emit(m, Ev("_pre_process_from_inbox", as_actor, m.self.data.type)),
         "_pre_process_from_inbox:ok", as_actor,
         variant_pre_process_from_inbox(m.self.data))

\* The try/except around self._pre_process_from_inbox(as_actor).
pre_process_from_inbox(m, as_actor) ==
  IF ~HasPreInbox(m.self.data.type) THEN m
  ELSE hook_outcome(
         Emit(m, Ev("_pre_process_from_inbox", as_actor, m.self.data.type)),
         "_pre_process_from_inbox:ok", as_actor,
         variant_pre_process_from_inbox(m.self.data))

\* build_accept giving the Accept the actor of the Follow.
build_accept_follow_actor(d) ==
  With(get_object(d), LAMBDA obj :
    IF obj.err # "" THEN obj
    ELSE Construct("Accept", [actor |-> d.actor,
                              object |-> to_dict(d, TRUE, FALSE).val]))

\* Follow._build_reply(ACCEPT)
build_accept(d) ==
  With(get_object(d), LAMBDA obj :
    IF obj.err # "" THEN obj
    ELSE Construct("Accept", [actor |-> Attr(obj.val, "id"),
                              object |-> to_dict(d, TRUE, FALSE).val]))

\* accept.post_to_outbox() inside the pipeline of another activity.
post_reply(m, reply) ==
  [post_to_outbox([m EXCEPT !.self = NewObject(reply)]) EXCEPT !.self = m.self]

\* BACKEND.new_follower(as_actor, self), reached when the reply was posted.
Follow_new_follower(m, as_actor) ==
  IF m.err # "" THEN m
  ELSE record_call(m, "new_follower", as_actor, m.self.data)

\* Follow_process_from_inbox recording the follower before it replies.
Follow_process_from_inbox_record_first(m, as_actor) ==
  With(build_accept(m.self.data), LAMBDA accept :
    IF accept.err # "" THEN Fail(m, accept.err)
    ELSE post_reply(record_call(m, "new_follower", as_actor, m.self.data),
                    accept.val))

\* Follow._process_from_inbox
Follow_process_from_inbox(m, as_actor) ==
  With(build_accept(m.self.data), LAMBDA accept :
    IF accept.err # "" THEN Fail(m, accept.err)
    ELSE Follow_new_follower(post_reply(m, accept.val), as_actor))

\* Accept._process_from_inbox
Accept_process_from_inbox(m, as_actor) ==
  With(get_object(m.self.data), LAMBDA o :
    IF o.err # "" THEN Fail(m, o.err)
    ELSE IF o.val.type = "Follow"
      THEN record_call(m, "new_following", as_actor, o.val)
    ELSE m)

\* undo_inbox_call finding no hook.
undo_inbox_call_none(cls) == ""

\* The _undo_inbox hook of the variant of obj ("" when it defines none).
undo_inbox_call(cls) ==
  CASE cls = "Follow"   -> "undo_new_follower"
    [] cls = "Like"     -> "inbox_undo_like"
    [] cls = "Announce" -> "inbox_undo_announce"
    [] OTHER            -> ""

\* Undo._process_from_inbox
Undo_process_from_inbox(m, as_actor) ==
  With(get_object(m.self.data), LAMBDA obj :
    IF obj.err # "" THEN Fail(m, obj.err)
    ELSE IF undo_inbox_call(obj.val.type) = "" THEN m
    ELSE record_call(m, undo_inbox_call(obj.val.type), as_actor, obj.val))

\* The identifiers of the model that do not start with "http" (every other
\* identifier stands for an http(s) URL).
LegacyRefs == {"tag:legacy"}

\* Announce._process_from_inbox
Announce_process_from_inbox(m, as_actor) ==
  IF ~Has(m.self.data, "object") THEN Fail(m, "KeyError")
  ELSE IF IsStr(m.self.data.object) /\ m.self.data.object.ref \in LegacyRefs
    THEN m
  ELSE record_call(m, "inbox_announce", as_actor, m.self.data)

\* The variant's _process_from_inbox hook.
variant_process_from_inbox(m, as_actor) ==
  CASE m.self.data.type = "Follow" -> Follow_process_from_inbox(m, as_actor)
    [] m.self.data.type = "Accept" -> Accept_process_from_inbox(m, as_actor)
    [] m.self.data.type = "Undo" -> Undo_process_from_inbox(m, as_actor)
    [] m.self.data.type = "Like" ->
         record_call(m, "inbox_like", as_actor, m.self.data)
    [] m.self.data.type = "Announce" -> Announce_process_from_inbox(m, as_actor)
    [] m.self.data.type = "Delete" ->
         record_call(m, "inbox_delete", as_actor, m.self.data)
    [] m.self.data.type = "Update" ->
         record_call(m, "inbox_update", as_actor, m.self.data)
    [] m.self.data.type = "Create" ->
         record_call(m, "inbox_create", as_actor, m.self.data)
    [] OTHER -> m

\* The try/except around self._process_from_inbox(as_actor).
post_process_from_inbox(m, as_actor) ==
  IF ~HasPostInbox(m.self.data.type) THEN m
  ELSE hook_returned(
         variant_process_from_inbox(
           Emit(m, Ev("_process_from_inbox", as_actor, m.self.data.type)),
           as_actor),
         "_process_from_inbox:ok", as_actor)

\* process_from_inbox_persist taking the activity out of the inbox again when
\* the post-inbox hook fails.
process_from_inbox_persist_rollback(m, as_actor) ==
  IF m.err # "" THEN m
  ELSE With(post_process_from_inbox(inbox_new(m, as_actor, m.self.data),
                                    as_actor),
         LAMBDA m2 : IF m2.err # "" THEN [m2 EXCEPT !.inbox = m.inbox] ELSE m2)

\* process_from_inbox from BACKEND.inbox_new(as_actor, self) on.
process_from_inbox_persist(m, as_actor) ==
  IF m.err # "" THEN m
  ELSE post_process_from_inbox(inbox_new(m, as_actor, m.self.data), as_actor)

\* process_from_inbox_tail persisting before the pre-inbox hook has run.
process_from_inbox_tail_persist_first(m, as_actor) ==
  With(inbox_new(m, as_actor, m.self.data), LAMBDA m1 :
    With(pre_process_from_inbox(m1, as_actor), LAMBDA m2 :
      IF m2.err # "" THEN m2 ELSE post_process_from_inbox(m2, as_actor)))

\* process_from_inbox after the duplicate check.
process_from_inbox_tail(m, as_actor) ==
  process_from_inbox_persist(pre_process_from_inbox(m, as_actor), as_actor)

\* process_from_inbox_dup without the duplicate check.
process_from_inbox_dup_unchecked(m, as_actor) ==
  process_from_inbox_tail(m, as_actor)

\* process_from_inbox from the duplicate check on.
process_from_inbox_dup(m, as_actor) ==
  IF inbox_get_by_iri(m, as_actor, Attr(m.self.data, "id")) THEN m
  ELSE process_from_inbox_tail(m, as_actor)

\* process_from_inbox_block without the block check.
process_from_inbox_block_unchecked(m, as_actor, actor_id) ==
  process_from_inbox_dup(
    Emit(m, Ev("inbox_get_by_iri", as_actor, Attr(m.self.data, "id"))),
    as_actor)

\* process_from_inbox from the block check on, for the sender actor_id.
process_from_inbox_block(m, as_actor, actor_id) ==
  IF outbox_is_blocked(m, as_actor, actor_id) THEN m
  ELSE process_from_inbox_dup(
         Emit(m, Ev("inbox_get_by_iri", as_actor, Attr(m.self.data, "id"))),
         as_actor)

\* BaseActivity.process_from_inbox(as_actor) on m.self.
process_from_inbox(m, as_actor) ==
  With(get_actor(m.self.data), LAMBDA actor :
    IF actor.err # "" THEN Fail(m, actor.err)
    ELSE process_from_inbox_block(
           Emit(m, Ev("outbox_is_blocked", as_actor, Attr(actor.val, "id"))),
           as_actor, Attr(actor.val, "id")))

\* build_undo referring to the undone activity by its id only.
build_undo_by_id(d) ==
  With(get_actor(d), LAMBDA a :
    IF a.err # "" THEN a
    ELSE Construct("Undo", [actor |-> Attr(a.val, "id"),
                            object |-> Ref(Attr(d, "id"))]))

\* Follow.build_undo, Like.build_undo (embed_object_id_only) and
\* Announce.build_undo.
build_undo(d) ==
  With(to_dict(d, TRUE, d.type = "Like"), LAMBDA o :
    IF o.err # "" THEN o
    ELSE With(get_actor(d), LAMBDA a :
      IF a.err # "" THEN a
      ELSE Construct("Undo", [actor |-> Attr(a.val, "id"),
                              object |-> o.val])))

\* The fields Note.build_create copies from the Note when present.
RECURSIVE copy_fields(_, _, _)
copy_fields(acc, n, fields) ==
  IF fields = <<>> THEN acc
  ELSE copy_fields(IF Has(n, Head(fields)) THEN Put(acc, Head(fields), n[Head(fields)])
                   ELSE acc, n, Tail(fields))

\* Note.build_create: the Create wrapping Note data n.
build_create(n) ==
  Construct("Create",
    copy_fields([object |-> to_dict(n, TRUE, FALSE).val,
                 actor |-> Attr(n, "attributedTo")],
                n, <<"published", "to", "bto", "cc", "bcc", "audience">>))

\* ------------------------------------------------------------ inputs
\* Activities as remote peers send them.
inFollow == [type |-> "Follow", id |-> "f1", actor |-> "A", object |-> Ref("B")]

inAccept ==
  [type |-> "Accept", id |-> "acc1", actor |-> "B",
   object |-> [type |-> "Follow", id |-> "out/1", actor |-> "A",
               object |-> Ref("B")]]

inLike == [type |-> "Like", id |-> "l1", actor |-> "A", object |-> Ref("noteC")]

inLikeNoId == [type |-> "Like", actor |-> "A", object |-> Ref("noteC")]

inUndo(id, actor, obj) ==
  [type |-> "Undo", id |-> id, actor |-> actor, object |-> obj]

inAnnounce ==
  [type |-> "Announce", id |-> "an1", actor |-> "B", object |-> Ref("noteA")]

inAnnounceLegacy ==
  [type |-> "Announce", id |-> "an2", actor |-> "B",
   object |-> Ref("tag:legacy")]

inDelete(id, actor) ==
  [type |-> "Delete", id |-> id, actor |-> actor,
   object |-> [type |-> "Tombstone", id |-> "noteA"]]

inUpdate(id, actor) ==
  [type |-> "Update", id |-> id, actor |-> actor,
   object |-> [type |-> "Note", id |-> "noteA", attributedTo |-> "A",
               to |-> <<AS_PUBLIC>>]]

inCreate ==
  [type |-> "Create", id |-> "c1", actor |-> "C",
   object |-> [type |-> "Note", id |-> "n1", attributedTo |-> "C",
               published |-> "then", to |-> <<"A">>, bto |-> <<"B">>]]

inBlock == [type |-> "Block", id |-> "b1", actor |-> "D", object |-> Ref("A")]

\* The deliveries tried: <<payload, the actor whose inbox receives it>>.
Deliveries ==
  { <<inFollow, "B">>, <<inAccept, "A">>, <<inLike, "C">>, <<inLikeNoId, "C">>,
    <<inUndo("u1", "A", inLike), "C">>, <<inUndo("u2", "D", inLike), "C">>,
    <<inUndo("u3", "A", inFollow), "B">>, <<inUndo("u4", "D", inFollow), "B">>,
    <<inUndo("u5", "B", inAnnounce), "A">>,
    <<inUndo("u6", "D", inAnnounce), "A">>,
    <<inAnnounce, "A">>, <<inAnnounceLegacy, "A">>,
    <<inDelete("d1", "A"), "B">>, <<inDelete("d2", "B"), "C">>,
    <<inUpdate("up1", "A"), "B">>, <<inUpdate("up2", "B"), "C">>,
    <<inCreate, "A">>, <<inBlock, "A">>, <<inCreate, "B">> }

\* Activities as the application builds them for its outbox.
outFollow == [type |-> "Follow", actor |-> "A", object |-> Ref("B")]

outLike ==
  [type |-> "Like", actor |-> "A", object |-> Ref("noteC"), bcc |-> <<"D">>]

outAnnounce ==
  [type |-> "Announce", actor |-> "A", object |-> Ref("noteC"),
   to |-> <<AS_PUBLIC>>, cc |-> <<"A/followers", "C">>, bto |-> <<"D">>]

outUndo ==
  [type |-> "Undo", actor |-> "A",
   object |-> [type |-> "Like", id |-> "out/1", actor |-> "A",
               object |-> Ref("noteC")]]

outDelete ==
  [type |-> "Delete", actor |-> "A",
   object |-> [type |-> "Tombstone", id |-> "out/1/activity"]]

outUpdate ==
  [type |-> "Update", actor |-> "A",
   object |-> [type |-> "Note", id |-> "out/1/activity", attributedTo |-> "A",
               published |-> "then", to |-> <<"B">>]]

outCreate ==
  [type |-> "Create", actor |-> "A", bto |-> <<"D">>,
   object |-> [type |-> "Note", attributedTo |-> "A", to |-> <<"B">>,
               bcc |-> <<"C">>]]

outCreateRef == [type |-> "Create", actor |-> "A", object |-> Ref("noteC")]

outBlock(actor, blocked) ==
  [type |-> "Block", actor |-> actor, object |-> Ref(blocked)]

\* <<the blocking actor, the blocked actor>>
Blocks == {<<"C", "A">>, <<"B", "A">>, <<"A", "B">>, <<"A", "C">>, <<"C", "D">>}

outAccept == [type |-> "Accept", actor |-> "B", object |-> inFollow]

outNote ==
  [type |-> "Note", attributedTo |-> "A", to |-> <<"B">>, cc |-> <<"C">>,
   bto |-> <<"D">>, bcc |-> <<"A">>]

Postings ==
  {outFollow, outLike, outAnnounce, outUndo, outDelete, outUpdate, outCreate,
   outCreateRef, outAccept} \cup {outBlock(b[1], b[2]) : b \in Blocks}

\* Two iteration orders of a Python set over the identifiers of the model.
Order1 == <<"A", "B", "C", "D", AS_PUBLIC, "A/followers", "noteA", "noteC">>

Order2 == <<"noteC", "noteA", "A/followers", AS_PUBLIC, "D", "C", "B", "A">>

Orders == {Order1, Order2}

\* The endpoints the transport fails to deliver to.
DownChoices == { {}, {"S/inbox"}, {"A/inbox"} }

\* ------------------------------------------------------------ state machine
VARIABLES inbox, outbox, fx, nextId, down, nops, last, workers

vars == <<inbox, outbox, fx, nextId, down, nops, last, workers>>

NoObject == NewObject([type |-> "None"])

Init ==
  /\ inbox = <<>>
  /\ outbox = <<>>
  /\ fx = {}
  /\ nextId = 1
  /\ down \in DownChoices
  /\ nops = 0
  /\ last = [op |-> "none", box |-> None, err |-> "", trace |-> <<>>,
             self |-> NoObject, built |-> FALSE]
  /\ workers = <<>>

\* The collaborator as a pipeline call on object self finds it.
Mach(self, ord) ==
  [inbox |-> inbox, outbox |-> outbox, fx |-> fx, nextId |-> nextId,
   down |-> down, ord |-> ord, trace |-> <<>>, err |-> "", self |-> self]

\* The state a pipeline call leaves.
Commit(op, box, m) ==
  /\ inbox' = m.inbox
  /\ outbox' = m.outbox
  /\ fx' = m.fx
  /\ nextId' = m.nextId
  /\ last' = [op |-> op, box |-> box, err |-> m.err, trace |-> m.trace,
              self |-> m.self, built |-> TRUE]
  /\ nops' = nops + 1
  /\ UNCHANGED <<down, workers>>

\* A call that failed before its pipeline started (the activity could not be
\* constructed).
Rejected(op, box, e) ==
  /\ last' = [op |-> op, box |-> box, err |-> e, trace |-> <<>>,
              self |-> NoObject, built |-> FALSE]
  /\ nops' = nops + 1
  /\ UNCHANGED <<inbox, outbox, fx, nextId, down, workers>>

\* Inbox(as_actor).post(parse_activity(payload))
Receive(payload, as_actor) ==
  /\ nops < MaxOps
  /\ With(parse_activity(payload, None), LAMBDA a :
       IF a.err # "" THEN Rejected("process_from_inbox", as_actor, a.err)
       ELSE Commit("process_from_inbox", as_actor,
                   process_from_inbox(Mach(NewObject(a.val), Order1),
                                      as_actor)))

\* parse_activity(payload).post_to_outbox()
Post(payload, ord) ==
  /\ nops < MaxOps
  /\ ord = Order1 \/ payload.type = "Announce"
  /\ With(parse_activity(payload, None), LAMBDA a :
       IF a.err # "" THEN Rejected("post_to_outbox", None, a.err)
       ELSE Commit("post_to_outbox", None,
                   post_to_outbox(Mach(NewObject(a.val), ord))))

\* Note(**n).build_create().post_to_outbox(), the Note still referenced by
\* the caller (ctx = "alive") or already collected (ctx = "dead").
PostNote(n, ctx) ==
  /\ nops < MaxOps
  /\ With(Construct("Note", n), LAMBDA note :
       IF note.err # "" THEN Rejected("post_to_outbox", None, note.err)
       ELSE With(build_create(note.val), LAMBDA c :
         IF c.err # "" THEN Rejected("post_to_outbox", None, c.err)
         ELSE Commit("post_to_outbox", None,
                     post_to_outbox(Mach([data |-> c.val, ctx |-> ctx,
                                          parent_id |-> None], Order1)))))

Next ==
  \/ \E dv \in Deliveries : Receive(dv[1], dv[2])
  \/ \E p \in Postings, ord \in Orders : Post(p, ord)
  \/ \E ctx \in {"alive", "dead"} : PostNote(outNote, ctx)

Spec == Init /\ [][Next]_vars

\* ------------------------------------------------- an activity posted again
\* post_to_outbox() called again on the activity the last call posted.
PostAgain ==
  /\ nops < MaxOps
  /\ last.op = "post_to_outbox" /\ last.built /\ Has(last.self.data, "id")
  /\ Commit("post_to_outbox", None, post_to_outbox(Mach(last.self, Order1)))

\* outbox_set_id(uri, obj_id) called again on the activity the last call
\* posted.
SetIdAgain ==
  /\ nops < MaxOps
  /\ last.op = "post_to_outbox" /\ last.built /\ Has(last.self.data, "id")
  /\ Commit("outbox_set_id", None,
            outbox_set_id(Mach(last.self, Order1), activity_url("again"),
                          "again"))

NextWriteOnce ==
  \/ \E p \in Postings, ord \in Orders : Post(p, ord)
  \/ \E ctx \in {"alive", "dead"} : PostNote(outNote, ctx)
  \/ PostAgain
  \/ SetIdAgain

SpecWriteOnce == Init /\ [][NextWriteOnce]_vars

\* ------------------------------------------------------------ build_undo
\* The Follow, Like or Announce the last call stored in an inbox is undone
\* by its sender: the Undo that build_undo() returns, with the id the
\* sender's outbox gave it, arrives at the same inbox.
ReceiveUndo ==
  /\ nops < MaxOps
  /\ last.op = "process_from_inbox" /\ last.built
  /\ last.self.data.type \in {"Follow", "Like", "Announce"}
  /\ Has(last.self.data, "id")
  /\ \E i \in 1..Len(last.trace) : last.trace[i].call = "inbox_new"
  /\ With(build_undo(last.self.data), LAMBDA u :
       IF u.err # "" THEN Rejected("process_from_inbox", last.box, u.err)
       ELSE Commit("process_from_inbox", last.box,
                   process_from_inbox(
                     Mach(NewObject(Put(u.val, "id",
                            activity_url("undo-" \o last.self.data.id))),
                          Order1),
                     last.box)))

NextUndo ==
  \/ \E dv \in Deliveries : Receive(dv[1], dv[2])
  \/ ReceiveUndo

SpecUndo == Init /\ [][NextUndo]_vars

\* ------------------------------------------------- concurrent inbox calls
\* Two threads call process_from_inbox on the same received activity for
\* the same inbox; every BACKEND call is atomic and the threads interleave
\* between the calls.  A worker is [pc, self, box, err].
Workers == {1, 2}

\* The storage a BACKEND call of a worker leaves.
StoreOf(m) ==
  /\ inbox' = m.inbox
  /\ outbox' = m.outbox
  /\ fx' = m.fx
  /\ nextId' = m.nextId

Goto(w, pc) == workers' = [workers EXCEPT ![w].pc = pc]

\* process_from_inbox returns or raises e.
Finish(w, e) == workers' = [workers EXCEPT ![w].pc = "done", ![w].err = e]

InitConcurrent ==
  /\ inbox = <<>>
  /\ outbox = <<>>
  /\ fx = {}
  /\ nextId = 1
  /\ down \in DownChoices
  /\ nops = 0
  /\ last = [op |-> "none", box |-> None, err |-> "", trace |-> <<>>,
             self |-> NoObject, built |-> FALSE]
  /\ \E dv \in Deliveries :
       /\ parse_activity(dv[1], None).err = ""
       /\ workers = [w \in Workers |->
                       [pc |-> "block", box |-> dv[2], err |-> "",
                        self |-> NewObject(parse_activity(dv[1], None).val)]]

\* process_from_inbox up to BACKEND.outbox_is_blocked.
WorkerBlock(w) ==
  /\ workers[w].pc = "block"
  /\ With(get_actor(workers[w].self.data), LAMBDA actor :
       IF actor.err # "" THEN Finish(w, actor.err)
       ELSE IF outbox_is_blocked(Mach(workers[w].self, Order1),
                                 workers[w].box, Attr(actor.val, "id"))
         THEN Finish(w, "")
       ELSE Goto(w, "dup"))
  /\ UNCHANGED <<inbox, outbox, fx, nextId, down, nops, last>>

\* BACKEND.inbox_get_by_iri(as_actor, self.id)
WorkerDup(w) ==
  /\ workers[w].pc = "dup"
  /\ IF inbox_get_by_iri(Mach(workers[w].self, Order1), workers[w].box,
                         Attr(workers[w].self.data, "id"))
       THEN Finish(w, "")
       ELSE Goto(w, "persist")
  /\ UNCHANGED <<inbox, outbox, fx, nextId, down, nops, last>>

\* The pre-inbox hook and BACKEND.inbox_new(as_actor, self).
WorkerPersist(w) ==
  /\ workers[w].pc = "persist"
  /\ With(pre_process_from_inbox(Mach(workers[w].self, Order1),
                                 workers[w].box), LAMBDA m :
       IF m.err # ""
         THEN Finish(w, m.err) /\ UNCHANGED <<inbox, outbox, fx, nextId>>
         ELSE StoreOf(inbox_new(m, workers[w].box, m.self.data))
              /\ Goto(w, "hook"))
  /\ UNCHANGED <<down, nops, last>>

\* The post-inbox hook.
WorkerHook(w) ==
  /\ workers[w].pc = "hook"
  /\ With(post_process_from_inbox(Mach(workers[w].self, Order1),
                                  workers[w].box), LAMBDA m :
       StoreOf(m) /\ Finish(w, m.err))
  /\ UNCHANGED <<down, nops, last>>

NextConcurrent ==
  \E w \in Workers :
    \/ WorkerBlock(w)
    \/ WorkerDup(w)
    \/ WorkerPersist(w)
    \/ WorkerHook(w)

SpecConcurrent == InitConcurrent /\ [][NextConcurrent]_vars

\* ------------------------------------------------------------ recipients()
\* recipients() called on a constructed activity, for every short list of
\* recipient references.
RecipientRefs ==
  {"A", "B", "C", "D", "E", AS_PUBLIC, None, "A/followers", "noteA"}

RecipientLists == UNION {[1..k -> RecipientRefs] : k \in 0..MaxRecipients}

AddressedInputs ==
  {[type |-> "Note", attributedTo |-> "A", to |-> s] : s \in RecipientLists}
  \cup {[type |-> "Follow", actor |-> "A", object |-> Ref(x)] :
          x \in {"A", "B", "D"}}

\* A payload at hand, nothing called on it yet.
InputState(payloads) ==
  /\ inbox = <<>>
  /\ outbox = <<>>
  /\ fx = {}
  /\ nextId = 1
  /\ down = {}
  /\ nops = 0
  /\ workers = <<>>
  /\ \E p \in payloads :
       last = [op |-> "input", box |-> None, err |-> "", trace |-> <<>>,
               self |-> NewObject(p), built |-> FALSE]

InitRecipients == InputState(AddressedInputs)

\* What a call of name op on the activity of _data d left: the exception
\* r.err, or the value r.val.
Returned(op, d, r) ==
  /\ last' = [op |-> op, box |-> None, err |-> r.err,
              trace |-> IF r.err # "" THEN <<>>
                        ELSE <<[call |-> op, box |-> None, arg |-> d.type,
                                out |-> r.val]>>,
              self |-> NewObject(d), built |-> TRUE]
  /\ nops' = nops + 1
  /\ UNCHANGED <<inbox, outbox, fx, nextId, down, workers>>

\* parse_activity(payload).recipients()
ResolveRecipients ==
  /\ last.op = "input"
  /\ With(parse_activity(last.self.data, None), LAMBDA a :
       IF a.err # "" THEN Rejected("recipients", None, a.err)
       ELSE Returned("recipients", a.val, recipients(a.val, Order1)))

NextRecipients == ResolveRecipients

SpecRecipients == InitRecipients /\ [][NextRecipients]_vars

\* ------------------------------------------------------------ @context
\* A constructor called with every short @context: absent, a single value,
\* a list.
ContextItems ==
  {Ref(CTX_AS), Ref(CTX_SECURITY), Ref("https://example.org/ns"),
   [ostatus |-> "http://ostatus.org#"], [Hashtag |-> "ex:Hashtag"]}

ContextLists == UNION {[1..k -> ContextItems] : k \in 0..MaxContext}

ContextValues == ContextItems \cup {[list |-> l] : l \in ContextLists}

ContextInputs ==
  {[type |-> "Note", attributedTo |-> "A"],
   [type |-> "Follow", actor |-> "A", object |-> Ref("B")]}
  \cup {("@context" :> c) @@ [type |-> "Note", attributedTo |-> "A"] :
          c \in ContextValues}
  \cup {("@context" :> c) @@
          [type |-> "Follow", actor |-> "A", object |-> Ref("B")] :
          c \in ContextValues}

InitContext == InputState(ContextInputs)

\* cls(**kwargs) for the variant cls the payload names.
BuildActivity ==
  /\ last.op = "input"
  /\ With(Construct_context(last.self.data.type, last.self.data), LAMBDA a :
       IF a.err # "" THEN Rejected("__init__", None, a.err)
       ELSE Returned("__init__", a.val, Ok(a.val["@context"])))

NextContext == BuildActivity

SpecContext == InitContext /\ [][NextContext]_vars

\* ------------------------------------------------------------ object field
\* The constructor of every variant that requires an object, called with
\* and without one.
ObjectVariants ==
  {"Follow", "Accept", "Like", "Announce", "Undo", "Delete", "Update",
   "Create", "Block"}

ObjectInputs ==
  {[type |-> t, id |-> i, actor |-> a] :
     t \in ObjectVariants, i \in {"x1", "x2"}, a \in {"A", "B"}}
  \cup {[type |-> t, id |-> i, actor |-> a, object |-> Ref(o)] :
          t \in ObjectVariants, i \in {"x1", "x2"}, a \in {"A", "B"},
          o \in {"B", "noteC"}}

InitObject == InputState(ObjectInputs)

NextObject == BuildActivity

SpecObject == InitObject /\ [][NextObject]_vars

\* ------------------------------------------------------------ parse_activity
\* parse_activity on a payload of every type string, with and without an
\* expected type.
ParseTypes == ActivityTypes \cup {"Question", "Bogus"}

ParseInputs ==
  {[type |-> t, id |-> i, actor |-> "A", object |-> Ref(o)] :
     t \in ParseTypes, i \in {"x1", "x2"}, o \in {"B", "noteC"}}

ExpectedTypes == {None, "Follow", "Note", "Reject"}

InitParse == InputState(ParseInputs)

\* parse_activity(payload, expected)
ParseActivity(expected) ==
  /\ last.op = "input"
  /\ With(parse_activity(last.self.data, expected), LAMBDA a :
       IF a.err # "" THEN Rejected("parse_activity", None, a.err)
       ELSE Returned("parse_activity", a.val, Ok(a.val.type)))

NextParse == \E expected \in ExpectedTypes : ParseActivity(expected)

SpecParse == InitParse /\ [][NextParse]_vars

\* ------------------------------------------------------------ properties
\* The calls of the last pipeline call, in order.
CallNames == [i \in 1..Len(last.trace) |-> last.trace[i].call]

\* The events of the last pipeline call that are calls of the name c.
EventsOf(c) == {i \in 1..Len(last.trace) : last.trace[i].call = c}

Called(c) == EventsOf(c) # {}

InboxRecordCalls ==
  {"new_follower", "new_following", "undo_new_follower", "inbox_like",
   "inbox_undo_like", "inbox_announce", "inbox_undo_announce", "inbox_delete",
   "inbox_update", "inbox_create"}

OutboxRecordCalls ==
  {"outbox_like", "outbox_announce", "outbox_delete", "outbox_update",
   "outbox_create", "undo_new_following", "outbox_undo_like",
   "outbox_undo_announce"}

\* The place of a call in the inbox pipeline (0: not a step of it).
InboxRank(c) ==
  CASE c = "outbox_is_blocked"          -> 1
    [] c = "inbox_get_by_iri"           -> 2
    [] c = "_pre_process_from_inbox"    -> 3
    [] c = "_pre_process_from_inbox:ok" -> 4
    [] c = "inbox_new"                  -> 5
    [] c = "_process_from_inbox"        -> 6
    [] c \in InboxRecordCalls           -> 7
    [] c = "_process_from_inbox:ok"     -> 8
    [] OTHER                            -> 0

\* The place of a call in the outbox pipeline (0: not a step of it).
OutboxRank(c) ==
  CASE c = "outbox_set_id"          -> 1
    [] c = "_pre_post_to_outbox"    -> 2
    [] c = "_pre_post_to_outbox:ok" -> 3
    [] c = "outbox_new"             -> 4
    [] c = "recipients"             -> 5
    [] c = "_post_to_outbox"        -> 6
    [] c \in OutboxRecordCalls      -> 7
    [] c = "_post_to_outbox:ok"     -> 8
    [] c = "post_to_remote_inbox"   -> 9
    [] OTHER                        -> 0

InboxSteps ==
  SelectSeq([i \in 1..Len(last.trace) |-> InboxRank(last.trace[i].call)],
            LAMBDA r : r # 0)

OutboxSteps ==
  SelectSeq([i \in 1..Len(last.trace) |-> OutboxRank(last.trace[i].call)],
            LAMBDA r : r # 0)

InSteps(r, steps) == \E i \in 1..Len(steps) : steps[i] = r

\* Each step comes later in the pipeline than the one before it; only a
\* step of rank rep may follow itself.
InOrder(steps, rep) ==
  \A i \in 1..(Len(steps) - 1) :
    steps[i] < steps[i + 1] \/ (steps[i] = rep /\ steps[i + 1] = rep)

InboxCall == last.op = "process_from_inbox" /\ last.built

OutboxCall == last.op = "post_to_outbox" /\ last.built

\* C1: a received activity that is neither blocked nor a duplicate goes
\* through block check, duplicate check, pre-inbox hook (if its variant
\* defines one), inbox_new, post-inbox hook (if defined), in this order;
\* inbox_new only follows a pre-inbox hook that returned, the post-inbox hook
\* and its recording call only follow inbox_new, and a call that returns
\* without error has done all of them.
C1_InboxOrder ==
  (InboxCall /\ Len(InboxSteps) > 2) =>
    /\ InOrder(InboxSteps, 0)
    /\ InboxSteps[1] = 1 /\ InboxSteps[2] = 2
    /\ InSteps(3, InboxSteps) <=> HasPreInbox(last.self.data.type)
    /\ InSteps(5, InboxSteps) =>
         (InSteps(3, InboxSteps) => InSteps(4, InboxSteps))
    /\ InSteps(6, InboxSteps) <=>
         (InSteps(5, InboxSteps) /\ HasPostInbox(last.self.data.type))
    /\ (InSteps(7, InboxSteps) \/ InSteps(8, InboxSteps)) =>
         InSteps(6, InboxSteps)
    /\ last.err = "" =>
         /\ InSteps(5, InboxSteps)
         /\ InSteps(6, InboxSteps) => InSteps(8, InboxSteps)

\* An Undo received and processed by both of its hooks.
C1_Witness ==
  /\ InboxCall /\ last.err = "" /\ last.self.data.type = "Undo"
  /\ InboxSteps = <<1, 2, 3, 4, 5, 6, 7, 8>>

\* The entries of the inbox of box b with identifier id.
Stored(ib, b, id) == {i \in 1..Len(ib) : ib[i].box = b /\ ib[i].id = id}

\* C2: when an activity arrives for an inbox that already stores an activity
\* of the same id, the call returns without error and without pre-inbox
\* hook, inbox_new, post-inbox hook or recording call; the storage is left as
\* it was and holds exactly one entry of that id.
C2_IdempotentInbox ==
  [][ ( /\ last'.op = "process_from_inbox" /\ last'.built
        /\ nops' = nops + 1
        /\ Has(last'.self.data, "id")
        /\ Stored(inbox, last'.box, last'.self.data.id) # {} )
      => ( /\ last'.err = ""
           /\ \A i \in 1..Len(last'.trace) :
                last'.trace[i].call \in {"outbox_is_blocked", "inbox_get_by_iri"}
           /\ inbox' = inbox /\ outbox' = outbox /\ fx' = fx
           /\ Cardinality(Stored(inbox', last'.box, last'.self.data.id)) = 1 )
    ]_vars

\* The same activity received twice in a row: stored by the first call,
\* dropped as a duplicate by the second.
C2_Witness ==
  /\ InboxCall /\ last.err = "" /\ nops = 2
  /\ CallNames = <<"outbox_is_blocked", "inbox_get_by_iri">>
  /\ Has(last.self.data, "id")
  /\ Cardinality(Stored(inbox, last.box, last.self.data.id)) = 1

\* The recipient b has blocked the actor a, in the outbox ob.
BlockedIn(ob, b, a) ==
  \E i \in 1..Len(ob) :
    /\ ob[i].box = b /\ ob[i].data.type = "Block"
    /\ ob[i].data.object = Ref(a)

\* C3: an activity whose sender the recipient has blocked is dropped: the
\* call returns without error after the block check, with no inbox_new, no
\* hook, no recording call and no change of the storage.
C3_BlockedDropped ==
  [][ ( /\ last'.op = "process_from_inbox" /\ last'.built
        /\ nops' = nops + 1
        /\ BlockedIn(outbox, last'.box, last'.self.data.actor) )
      => ( /\ last'.err = ""
           /\ \A i \in 1..Len(last'.trace) :
                last'.trace[i].call = "outbox_is_blocked"
           /\ inbox' = inbox /\ outbox' = outbox /\ fx' = fx )
    ]_vars

\* A delivery from a blocked sender, dropped.
C3_Witness ==
  /\ InboxCall /\ last.err = ""
  /\ CallNames = <<"outbox_is_blocked">>
  /\ last.self.data.type = "Undo"
  /\ BlockedIn(outbox, last.box, last.self.data.actor)

\* The last call received an Undo whose actor is not the actor of the
\* (embedded) activity it undoes, and reached the pre-inbox hook.
UndoMismatch ==
  /\ InboxCall /\ last.self.data.type = "Undo"
  /\ ~IsStr(last.self.data.object)
  /\ last.self.data.actor # last.self.data.object.actor
  /\ Called("_pre_process_from_inbox")

\* What C4 and C5 say of the storage: the activity is not stored and no
\* recording call is made; nothing of the storage has changed.
NothingStoredStep ==
  /\ inbox' = inbox /\ outbox' = outbox /\ fx' = fx
  /\ \A i \in 1..Len(last'.trace) :
       last'.trace[i].call \notin InboxRecordCalls \cup {"inbox_new"}

DeleteUpdateMismatch ==
  /\ InboxCall /\ last.self.data.type \in {"Delete", "Update"}
  /\ ~IsStr(last.self.data.object)
  /\ Called("_pre_process_from_inbox")
  /\ \/ /\ last.self.data.type = "Update"
        /\ last.self.data.actor # Attr(last.self.data.object, "attributedTo")
     \/ /\ last.self.data.type = "Delete"
        /\ last.self.data.object.type = "Tombstone"
        /\ last.self.data.actor #
             Attr(fetch_iri(last.self.data.object.id).val, "attributedTo")

\* C5: a Delete or Update whose actor differs from the actor of the object
\* it refers to is rejected with an error by the pre-inbox hook: it is never
\* stored in the inbox and inbox_delete / inbox_update is never recorded.
C5_DeleteUpdateMismatch ==
  [][ DeleteUpdateMismatch' =>
        ( /\ last'.err # ""
          /\ ~\E i \in 1..Len(last'.trace) :
                last'.trace[i].call = "_pre_process_from_inbox:ok"
          /\ NothingStoredStep ) ]_vars

\* A Delete by another actor than the author of the deleted Note was
\* received.
C5_Witness ==
  /\ DeleteUpdateMismatch /\ last.self.data.type = "Delete" /\ last.err # ""

\* C6: a posted activity goes through identifier assignment, pre-outbox hook
\* (if its variant defines one), outbox_new, recipient resolution,
\* post-outbox hook (if defined) and delivery, in this order; a call that
\* returns without error has done all of them.
C6_OutboxOrder ==
  OutboxCall =>
    /\ InOrder(OutboxSteps, 9)
    /\ OutboxSteps # <<>> /\ OutboxSteps[1] = 1
    /\ InSteps(4, OutboxSteps) =>
         (InSteps(3, OutboxSteps) <=> HasPreOutbox(last.self.data.type))
    /\ InSteps(3, OutboxSteps) => InSteps(2, OutboxSteps)
    /\ InSteps(5, OutboxSteps) => InSteps(4, OutboxSteps)
    /\ InSteps(6, OutboxSteps) =>
         (InSteps(5, OutboxSteps) /\ HasPostOutbox(last.self.data.type))
    /\ (InSteps(7, OutboxSteps) \/ InSteps(8, OutboxSteps)) =>
         InSteps(6, OutboxSteps)
    /\ InSteps(9, OutboxSteps) =>
         /\ InSteps(4, OutboxSteps) /\ InSteps(5, OutboxSteps)
         /\ InSteps(8, OutboxSteps) <=> HasPostOutbox(last.self.data.type)
    /\ last.err = "" =>
         /\ InSteps(4, OutboxSteps) /\ InSteps(5, OutboxSteps)
         /\ InSteps(8, OutboxSteps) <=> HasPostOutbox(last.self.data.type)

\* An Undo posted through both hooks and delivered.
C6_Witness ==
  /\ OutboxCall /\ last.err = "" /\ last.self.data.type = "Undo"
  /\ OutboxSteps = <<1, 2, 3, 4, 5, 6, 7, 8, 9>>

\* C7: posting an Undo, Delete or Update whose object is not from the outbox
\* fails with NotFromOutboxError; the activity is not stored in the outbox,
\* no post-outbox call is recorded and nothing is delivered.
C7_NotFromOutbox ==
  [][ ( /\ last'.op = "post_to_outbox" /\ last'.built
        /\ nops' = nops + 1
        /\ last'.self.data.type \in {"Undo", "Delete", "Update"}
        /\ ~is_from_outbox([outbox |-> outbox], last'.self.data) )
      => ( /\ last'.err = "NotFromOutboxError"
           /\ inbox' = inbox /\ outbox' = outbox /\ fx' = fx
           /\ \A i \in 1..Len(last'.trace) :
                last'.trace[i].call \notin
                  OutboxRecordCalls \cup {"outbox_new", "post_to_remote_inbox"} )
    ]_vars

\* The endpoints recipient resolution returned to the last call.
Resolved ==
  UNION {{last.trace[i].out[j] : j \in 1..Len(last.trace[i].out)} :
           i \in EventsOf("recipients")}

\* The deliveries the last call has tried to endpoint e.
DeliveriesTo(e) ==
  {i \in EventsOf("post_to_remote_inbox") : last.trace[i].arg = e}

\* C8: a successful post_to_outbox hands one and the same payload, the
\* serialized activity without its hidden recipients, to
\* post_to_remote_inbox exactly once for each resolved endpoint and for no
\* other endpoint.
C8_DeliveredOncePerEndpoint ==
  (OutboxCall /\ last.err = "") =>
    /\ \A e \in Resolved : Cardinality(DeliveriesTo(e)) = 1
    /\ \A i \in EventsOf("post_to_remote_inbox") :
         /\ last.trace[i].arg \in Resolved
         /\ last.trace[i].payload = json_dumps(strip_hidden(last.self.data))

\* A successful posting delivered to three endpoints.
C8_Witness ==
  /\ OutboxCall /\ last.err = ""
  /\ Cardinality(Resolved) = 3
  /\ Cardinality(EventsOf("post_to_remote_inbox")) = 3

\* C9: once the delivery step has begun, delivery is attempted to every
\* resolved endpoint, whether or not an earlier delivery failed.
C9_FailureIsolated ==
  (OutboxCall /\ Called("post_to_remote_inbox")) =>
    \A e \in Resolved : DeliveriesTo(e) # {}

\* C10: no payload handed to post_to_remote_inbox has a bto or bcc field,
\* neither at its top level nor, for a Create, in its object.
C10_NoHiddenRecipients ==
  \A i \in EventsOf("post_to_remote_inbox") :
    LET a == last.trace[i].payload.json IN
      /\ ~Has(a, "bto") /\ ~Has(a, "bcc")
      /\ (a.type = "Create" /\ ~IsStr(a.object)) =>
           (~Has(a.object, "bto") /\ ~Has(a.object, "bcc"))

\* A Create built with hidden recipients, on itself and on its Note, was
\* delivered.
C10_Witness ==
  /\ OutboxCall /\ last.err = "" /\ last.self.data.type = "Create"
  /\ Has(last.self.data, "bto") /\ Has(last.self.data, "bcc")
  /\ Called("post_to_remote_inbox")

\* The list the last recipients() call returned.
Out == last.trace[1].out

\* recipients() was called on its own and returned.
RecipientsCall == last.op = "recipients" /\ last.built /\ last.err = ""

InOut(e) == \E i \in 1..Len(Out) : Out[i] = e

\* The raw references of the activity recipients() was called on.
RawRefs ==
  IF last.self.data.type = "Follow" THEN <<last.self.data.object.ref>>
  ELSE last.self.data.to

InRaw(x) == \E i \in 1..Len(RawRefs) : RawRefs[i] = x

\* C11: the list recipients() returns holds no endpoint twice; two
\* recipients declaring the same shared inbox put it there once.
C11_NoEndpointTwice ==
  \A i \in EventsOf("recipients") :
    \A j, k \in 1..Len(last.trace[i].out) :
      last.trace[i].out[j] = last.trace[i].out[k] => j = k

\* Two Persons of one shared inbox were resolved.
C11_Witness ==
  /\ RecipientsCall /\ InRaw("B") /\ InRaw("C")
  /\ Cardinality({i \in 1..Len(Out) : Out[i] = "S/inbox"}) = 1

\* The activity of the last call without the raw references that are its
\* own actor, the public audience or absent.
WithoutExcluded ==
  [last.self.data EXCEPT
     !.to = SelectSeq(@, LAMBDA x : x \notin {"A", AS_PUBLIC, None})]

\* C12: recipients() excludes the own actor, the public audience and absent
\* values: such a reference contributes nothing, the result holds no absent
\* entry, and a Follow of the own actor resolves to the empty list.
C12_ExcludesActorPublicAbsent ==
  RecipientsCall =>
    /\ ~InOut(None)
    /\ ~InOut("A/inbox")
    /\ last.self.data.type = "Note" =>
         recipients(WithoutExcluded, Order1) = Ok(Out)
    /\ (last.self.data.type = "Follow" /\ InRaw("A")) => Out = <<>>

\* The Person reference x declares a shared inbox.
DeclaresShared(x) ==
  Has(Directory[x], "endpoints") /\ Has(Directory[x].endpoints, "sharedInbox")

\* C13: each recipient that is a Person gets exactly one endpoint, its
\* shared inbox if it declares one and its personal inbox otherwise; the
\* personal inbox of a Person declaring a shared inbox is never in the
\* result.
C13_OneEndpointPerPerson ==
  (RecipientsCall /\ last.self.data.type = "Note") =>
    \A x \in {"B", "C", "D", "E"} :
      InRaw(x) =>
        IF DeclaresShared(x)
          THEN /\ InOut(Directory[x].endpoints.sharedInbox)
               /\ ~InOut(Directory[x].inbox)
          ELSE InOut(Directory[x].inbox)

\* The recording calls of name c that the step adds to the storage.
Added(c) == {e \in fx' \ fx : e.call = c}

\* In the last call every event of name c comes before every event of
\* name c2.
Before(c, c2) == \A i \in EventsOf(c), j \in EventsOf(c2) : i < j

\* C14 (as amended): the new-follower relationship of B is recorded while
\* B's inbox processes the Follow, once the Follow is stored in the inbox
\* and the Accept is stored in B's outbox and handed to delivery; it does not
\* wait for A to process the Accept.
C14_NewFollowerOnFollow ==
  [][ Added("new_follower") # {} =>
        ( /\ InboxCall' /\ last'.self.data.type = "Follow"
          /\ Added("new_follower") =
               {Ev("new_follower", last'.box, last'.self.data.id)}
          /\ Called("outbox_new")' /\ Called("post_to_remote_inbox")'
          /\ Before("inbox_new", "outbox_new")'
          /\ Before("outbox_new", "post_to_remote_inbox")'
          /\ Before("post_to_remote_inbox", "new_follower")' ) ]_vars

\* C14 as stated: B has a new follower only once A's inbox has processed
\* the Accept.
C14_AsStated ==
  (\E e \in fx : e.call = "new_follower" /\ e.box = "B") =>
    \E i \in 1..Len(inbox) : inbox[i].box = "A" /\ inbox[i].type = "Accept"

\* B has processed the Follow of A and recorded the follower; A has not
\* received the Accept.
C14_Witness ==
  /\ InboxCall /\ last.self.data.type = "Follow" /\ last.box = "B"
  /\ Ev("new_follower", "B", "f1") \in fx
  /\ ~\E i \in 1..Len(inbox) : inbox[i].type = "Accept"

\* C15: posting a Follow records nothing; a new-following relationship is
\* recorded only when an inbox processes an Accept of a Follow, for the
\* actor of that inbox and after the Accept was stored there.
C15_NewFollowingOnAccept ==
  [][ /\ ( /\ last'.op = "post_to_outbox" /\ last'.built
            /\ nops' = nops + 1 /\ last'.self.data.type = "Follow" )
          => fx' = fx
      /\ Added("new_following") # {} =>
          ( /\ InboxCall' /\ last'.self.data.type = "Accept"
            /\ last'.self.data.object.type = "Follow"
            /\ Added("new_following") =
                 {Ev("new_following", last'.box, last'.self.data.object.id)}
            /\ Called("inbox_new")'
            /\ Before("inbox_new", "new_following")' ) ]_vars

\* A posted its Follow, then received the Accept and recorded the
\* following.
C15_Witness ==
  /\ InboxCall /\ last.self.data.type = "Accept" /\ last.box = "A"
  /\ \E i \in 1..Len(outbox) : outbox[i].data.type = "Follow"
  /\ \E e \in fx : e.call = "new_following" /\ e.box = "A"

\* The undo-inbox hook of a Follow, Like or Announce.
UndoInboxHook(cls) ==
  CASE cls = "Like"     -> "inbox_undo_like"
    [] cls = "Follow"   -> "undo_new_follower"
    [] cls = "Announce" -> "inbox_undo_announce"

\* C16: an Undo that passed its pre-inbox hook is stored in the inbox and
\* then the undo-inbox hook of the activity it refers to is called
\* (inbox_undo_like for a Like, undo_new_follower for a Follow,
\* inbox_undo_announce for an Announce).
C16_UndoDispatch ==
  ( /\ InboxCall /\ last.self.data.type = "Undo"
    /\ Called("_pre_process_from_inbox:ok") ) =>
    /\ last.err = ""
    /\ Stored(inbox, last.box, last.self.data.id) # {}
    /\ Called(UndoInboxHook(last.self.data.object.type))
    /\ Before("inbox_new", UndoInboxHook(last.self.data.object.type))
    /\ Ev(UndoInboxHook(last.self.data.object.type), last.box,
          last.self.data.object.id) \in fx
    /\ \A c \in InboxRecordCalls :
         Called(c) => c = UndoInboxHook(last.self.data.object.type)

\* C's inbox processed the Like of A, then its Undo.
C16_Witness ==
  /\ InboxCall /\ last.self.data.type = "Undo" /\ last.box = "C"
  /\ Ev("inbox_like", "C", "l1") \in fx
  /\ Ev("inbox_undo_like", "C", "l1") \in fx
  /\ Stored(inbox, "C", "l1") # {} /\ Stored(inbox, "C", "u1") # {}

\* C17: the id of an activity is write-once: a second post_to_outbox or
\* outbox_set_id call on an activity that has an id leaves the id as it was.
C17_IdWriteOnce ==
  [][ (PostAgain \/ SetIdAgain) => last'.self.data.id = last.self.data.id ]_vars

\* The id a posted Create gives the Note it wraps.
NoteId == last.self.data.id \o "/activity"

\* C18: once a Create wrapping a Note is stored in the outbox, the Note's id
\* is the Create's URL followed by "/activity", in the activity itself, in
\* the outbox entry, in every delivered payload and on the parent Note the
\* Create was built from (while that Note is alive).
C18_NoteIdFromCreate ==
  (OutboxCall /\ last.self.data.type = "Create" /\ Called("outbox_new")) =>
    /\ last.self.data.object.id = NoteId
    /\ \E i \in 1..Len(outbox) :
         /\ outbox[i].data.id = last.self.data.id
         /\ outbox[i].data.object.id = NoteId
    /\ \A i \in 1..Len(outbox) :
         outbox[i].data.id = last.self.data.id =>
           outbox[i].data.object.id = NoteId
    /\ \A i \in EventsOf("post_to_remote_inbox") :
         last.trace[i].payload.json.object.id = NoteId
    /\ last.self.ctx = "alive" => last.self.parent_id = NoteId

\* A Create built from a Note still alive was posted and delivered.
C18_Witness ==
  /\ OutboxCall /\ last.self.data.type = "Create" /\ Called("outbox_new")
  /\ last.self.ctx = "alive" /\ last.self.parent_id = NoteId
  /\ Called("post_to_remote_inbox")

\* The @context list of the activity the last call built.
Context == last.self.data["@context"].list

\* C19: whatever @context a constructor is given (absent, a single value, a
\* list), the activity's @context contains the base context, contains the
\* security context exactly once and ends with a mapping that has the
\* Hashtag and sensitive keys.
C19_ContextNormalised ==
  (last.op = "__init__" /\ last.built /\ last.err = "") =>
    /\ \E i \in 1..Len(Context) : Context[i] = Ref(CTX_AS)
    /\ Cardinality({i \in 1..Len(Context) : Context[i] = Ref(CTX_SECURITY)}) = 1
    /\ Len(Context) >= 1
    /\ ~IsStr(Context[Len(Context)])
    /\ Has(Context[Len(Context)], "Hashtag")
    /\ Has(Context[Len(Context)], "sensitive")

\* C20: parse_activity raises UnexpectedActivityTypeError when an expected
\* type is given and differs from the payload's type, BadActivityError when
\* the payload's type has no registered variant (a type of the enumeration
\* without a variant or a string outside the enumeration), and otherwise
\* returns an instance of the variant registered for the type (when that
\* variant's constructor accepts the payload).
C20_ParseActivityErrors ==
  [][ \A expected \in ExpectedTypes : ParseActivity(expected) =>
        IF expected # None /\ expected # last.self.data.type
          THEN last'.err = "UnexpectedActivityTypeError"
        ELSE IF last.self.data.type \notin Registered
          THEN last'.err = "BadActivityError"
        ELSE Construct(last.self.data.type, last.self.data).err = "" =>
               /\ last'.err = ""
               /\ last'.self.data.type = last.self.data.type ]_vars

C22_ObjectRequired ==
  [][ ( /\ BuildActivity
        /\ OBJECT_REQUIRED(last.self.data.type)
        /\ ~Has(last.self.data, "object") )
      => last'.err = "BadActivityError" ]_vars

\* The step is an inbox call for an activity with an id that is neither
\* from a blocked sender nor a duplicate.
FreshInboxStep ==
  /\ last'.op = "process_from_inbox" /\ last'.built
  /\ nops' = nops + 1
  /\ Has(last'.self.data, "id")
  /\ ~BlockedIn(outbox, last'.box, last'.self.data.actor)
  /\ Stored(inbox, last'.box, last'.self.data.id) = {}

\* The step is an outbox call.
OutboxStep ==
  /\ last'.op = "post_to_outbox" /\ last'.built
  /\ nops' = nops + 1

\* C23: a hook a variant does not define is a no-op: without a pre-inbox
\* hook the activity is persisted, without any inbox hook the call
\* completes; without outbox hooks post_to_outbox persists and delivers.
\* An error raised by a defined hook is the error of the call.
C23_MissingHookNoOp ==
  [][ /\ FreshInboxStep =>
          /\ ~HasPreInbox(last'.self.data.type) =>
                /\ Called("inbox_new")'
                /\ Stored(inbox', last'.box, last'.self.data.id) # {}
          /\ ( ~HasPreInbox(last'.self.data.type)
               /\ ~HasPostInbox(last'.self.data.type) ) =>
                /\ last'.err = ""
                /\ CallNames' =
                     <<"outbox_is_blocked", "inbox_get_by_iri", "inbox_new">>
          /\ ( HasPreInbox(last'.self.data.type)
               /\ variant_pre_process_from_inbox(last'.self.data) # "" ) =>
                last'.err = variant_pre_process_from_inbox(last'.self.data)
          /\ (Called("_process_from_inbox")'
               /\ ~Called("_process_from_inbox:ok")') => last'.err # ""
      /\ OutboxStep =>
          /\ ( ~HasPreOutbox(last'.self.data.type)
               /\ ~HasPostOutbox(last'.self.data.type) ) =>
                /\ Called("outbox_new")'
                /\ \E i \in 1..Len(outbox') :
                     outbox'[i].data.id = last'.self.data.id
                /\ last'.err \in {"", "DeliveryError"}
                /\ \A c \in {"_pre_post_to_outbox", "_post_to_outbox"} :
                     ~Called(c)'
                /\ Resolved' # {} => Called("post_to_remote_inbox")'
                /\ last'.err = "" =>
                     \A e \in Resolved' : DeliveriesTo(e)' # {}
          /\ (Called("_pre_post_to_outbox")'
               /\ ~Called("_pre_post_to_outbox:ok")') => last'.err # ""
          /\ (Called("_post_to_outbox")'
               /\ ~Called("_post_to_outbox:ok")') => last'.err # ""
    ]_vars

\* A Block was received and an Accept posted, neither variant defining a
\* hook: the Block is stored in the inbox, the Accept stored in the outbox
\* and delivered.
C23_Witness ==
  /\ OutboxCall /\ last.self.data.type = "Accept" /\ last.err = ""
  /\ Called("outbox_new") /\ DeliveriesTo("A/inbox") # {}
  /\ Stored(inbox, "A", "b1") # {}

\* C24: a received Announce whose object is a legacy reference (a string
\* that does not start with "http") is dropped before it is persisted: the
\* inbox does not store it and no inbox share is recorded for it.
C24_LegacyAnnounceDropped ==
  ( /\ InboxCall /\ last.self.data.type = "Announce"
    /\ IsStr(last.self.data.object)
    /\ last.self.data.object.ref \in LegacyRefs ) =>
    /\ Stored(inbox, last.box, last.self.data.id) = {}
    /\ ~Called("inbox_new")
    /\ Ev("inbox_announce", last.box, last.self.data.id) \notin fx

\* The endpoint of the Person x: its shared inbox if it declares one, its
\* personal inbox otherwise.
EndpointOf(x) ==
  IF DeclaresShared(x) THEN Directory[x].endpoints.sharedInbox
  ELSE Directory[x].inbox

\* The members of the collection c other than the actor and the public
\* audience.
MembersOf(c) ==
  {Directory[c].items[i] : i \in 1..Len(Directory[c].items)}
    \ {"A", AS_PUBLIC}

\* recipients() was called on a Note of actor A addressed to the
\* collection A/followers and to nothing else that contributes.
CollectionOnly ==
  /\ last.op = "recipients" /\ last.built
  /\ last.self.data.type = "Note"
  /\ InRaw("A/followers")
  /\ \A i \in 1..Len(RawRefs) :
       RawRefs[i] \in {"A/followers", "A", AS_PUBLIC, None}

\* C25: a reference that resolves to a collection is expanded: the
\* endpoints returned are those of its members other than the actor and
\* the public audience, one endpoint a member (shared inbox preferred);
\* a reference that resolves to neither a Person nor a collection fails
\* with BadActivityError.
C25_CollectionExpanded ==
  /\ CollectionOnly =>
       /\ last.err = ""
       /\ {Out[i] : i \in 1..Len(Out)} =
            {EndpointOf(x) : x \in MembersOf("A/followers")}
  /\ ( /\ last.op = "recipients" /\ last.self.data.type = "Note"
       /\ InRaw("noteA") ) => last.err = "BadActivityError"

\* The outbox entries that are an Accept of the Follow the last call
\* processed, posted by the actor the Follow names.
AcceptsOfFollow ==
  {k \in 1..Len(outbox) :
     /\ outbox[k].data.type = "Accept"
     /\ outbox[k].box = last.self.data.object.ref
     /\ outbox[k].data.actor = last.self.data.object.ref
     /\ outbox[k].data.object.type = "Follow"
     /\ outbox[k].data.object.id = last.self.data.id
     /\ outbox[k].data.object.actor = last.self.data.actor
     /\ Has(outbox[k].data, "id")}

\* The Accept outbox[k] went through the outbox pipeline inside the last
\* call: id assigned, stored, recipients resolved, delivered to endpoint e,
\* all before the call c.
PostedBefore(k, e, c) ==
  \E i1, i2, i3, i4 \in 1..Len(last.trace) :
    /\ i1 < i2 /\ i2 < i3 /\ i3 < i4
    /\ last.trace[i1] = Ev("outbox_set_id", None, outbox[k].data.id)
    /\ last.trace[i2] =
         Ev("outbox_new", outbox[k].box, outbox[k].data.id)
    /\ last.trace[i3].call = "recipients"
    /\ last.trace[i3].out = <<e>>
    /\ last.trace[i4].call = "post_to_remote_inbox"
    /\ last.trace[i4].arg = e
    /\ last.trace[i4].payload.json.id = outbox[k].data.id
    /\ last.trace[i4].payload.json.type = "Accept"
    /\ \A j \in EventsOf("inbox_new") : j < i1
    /\ \A j \in EventsOf(c) : i4 < j

\* C26: when an inbox has processed a Follow{actor: A, object: B} without
\* error, an Accept of actor B with the Follow as its object has its id,
\* is stored in B's outbox and was delivered to A's inbox endpoint, and the
\* new follower was recorded after the Follow was stored in the inbox and
\* after the Accept was posted.
C26_FollowAccepted ==
  ( /\ InboxCall /\ last.self.data.type = "Follow"
    /\ Called("inbox_new") /\ last.err = "" ) =>
    /\ Called("new_follower")
    /\ Ev("new_follower", last.box, last.self.data.id) \in fx
    /\ Before("inbox_new", "new_follower")
    /\ \E k \in AcceptsOfFollow :
         PostedBefore(k, Directory[last.self.data.actor].inbox, "new_follower")

\* B processed the Follow of A; the Accept is in B's outbox and went to
\* A/inbox.
C26_Witness ==
  /\ InboxCall /\ last.self.data.type = "Follow" /\ last.box = "B"
  /\ last.err = "" /\ Called("new_follower")
  /\ AcceptsOfFollow # {} /\ DeliveriesTo("A/inbox") # {}

\* The last call was an inbox call whose post-inbox hook raised.
PostHookFailed ==
  /\ InboxCall /\ Called("_process_from_inbox")
  /\ ~Called("_process_from_inbox:ok")

\* The last call was an inbox call whose pre-inbox hook raised.
PreHookFailed ==
  /\ InboxCall /\ Called("_pre_process_from_inbox")
  /\ ~Called("_pre_process_from_inbox:ok")

\* The step delivers the activity of the last call to the same inbox again.
RetryStep ==
  /\ InboxCall /\ Has(last.self.data, "id")
  /\ last'.op = "process_from_inbox" /\ last'.built
  /\ nops' = nops + 1
  /\ last'.box = last.box /\ last'.self.data = last.self.data

\* C27: an activity whose post-inbox hook failed stays in the inbox: the
\* call raises, a retry is dropped as a duplicate and the side effect of
\* the hook (the new follower of a Follow) is not applied.  After a failed
\* pre-inbox hook the inbox is unchanged and a retry goes through the
\* pipeline again.
C27_RetryAfterHookFailure ==
  [][ /\ PostHookFailed' =>
          /\ last'.err # ""
          /\ Stored(inbox', last'.box, Attr(last'.self.data, "id")) # {}
          /\ last'.self.data.type = "Follow" =>
               Ev("new_follower", last'.box, last'.self.data.id) \notin fx'
      /\ (PostHookFailed /\ RetryStep) =>
          /\ last'.err = ""
          /\ CallNames' = <<"outbox_is_blocked", "inbox_get_by_iri">>
          /\ inbox' = inbox /\ outbox' = outbox /\ fx' = fx
      /\ (PreHookFailed' /\ nops' = nops + 1) =>
          /\ last'.err # ""
          /\ inbox' = inbox /\ fx' = fx
      /\ (PreHookFailed /\ RetryStep) =>
          /\ Called("_pre_process_from_inbox")'
          /\ CallNames' = CallNames
    ]_vars

\* The Accept of a received Follow could not be delivered; the Follow was
\* delivered again and dropped, no follower recorded.
C27_Witness ==
  /\ nops = 2 /\ InboxCall /\ last.self.data.type = "Follow"
  /\ last.err = ""
  /\ CallNames = <<"outbox_is_blocked", "inbox_get_by_iri">>
  /\ Stored(inbox, last.box, last.self.data.id) # {}
  /\ down = {"A/inbox"}
  /\ Ev("new_follower", last.box, last.self.data.id) \notin fx

\* C28: post_to_outbox of a Create wrapping a Note assigns the ids, stores
\* the Create in the outbox and goes on to delivery whatever the state of
\* the parent back-reference (never set, alive, dead); the Note's id is
\* stamped in each case.
C28_CreateAnyParent ==
  ( /\ OutboxCall /\ last.self.data.type = "Create"
    /\ Has(last.self.data, "object") /\ ~IsStr(last.self.data.object) ) =>
    /\ last.self.data.object.id = NoteId
    /\ Called("outbox_new")
    /\ Called("recipients")
    /\ last.err \in {"", "DeliveryError"}

\* C29: the hidden recipients are stripped from a copy: once
\* post_to_outbox has handed the activity to outbox_new, the fields of the
\* activity and of the object it wraps stay as they were handed over, bto
\* and bcc included.
C29_StripOnCopy ==
  (OutboxCall /\ Called("outbox_new")) =>
    \A k \in 1..Len(outbox) :
      outbox[k].data.id = last.self.data.id =>
        last.self.data = outbox[k].data

\* C30: the Undo that build_undo() returns for a stored Follow, Like or
\* Announce X with an id has the actor of X and refers to X; received by
\* the inbox that stored X it passes the pre-inbox ownership check, is
\* stored, and the undo-inbox hook of X's variant, and no other recording
\* call, is made for X.
C30_BuiltUndoUndoes ==
  [][ ReceiveUndo =>
        /\ last'.built /\ last'.err = ""
        /\ last'.self.data.type = "Undo"
        /\ last'.self.data.actor = last.self.data.actor
        /\ last'.self.data.object.type = last.self.data.type
        /\ last'.self.data.object.id = last.self.data.id
        /\ last'.self.data.object.actor = last.self.data.actor
        /\ Called("_pre_process_from_inbox:ok")'
        /\ Called("inbox_new")'
        /\ \E i \in 1..Len(last'.trace) :
             last'.trace[i] = Ev(UndoInboxHook(last.self.data.type), last.box,
                                last.self.data.id)
        /\ \A i \in 1..Len(last'.trace) :
             last'.trace[i].call \in InboxRecordCalls =>
               last'.trace[i].call = UndoInboxHook(last.self.data.type)
        /\ fx' = fx \cup {Ev(UndoInboxHook(last.self.data.type), last.box,
                              last.self.data.id)}
    ]_vars

\* The inbox of B stored the Follow of A and then the Undo built from it.
C30_Witness ==
  /\ InboxCall /\ last.self.data.type = "Undo" /\ last.box = "B"
  /\ last.self.data.id = activity_url("undo-f1")
  /\ Stored(inbox, "B", "f1") # {}
  /\ Ev("undo_new_follower", "B", "f1") \in fx

====
